---- MODULE Spec2Model ----
(***************************************************************************)
(* A model of the pinning gateway of main.go: the bearer-token gate, the   *)
(* /pins handler (handleIPFSPinRequest), the batch handler                 *)
(* (handleManifestBatchUpload), the ledger call (callBlockchain) and the   *)
(* status translation (translateToIPFSPinStatus).                          *)
(*                                                                         *)
(* Strings the code inspects character by character (the Authorization     *)
(* header, the configured pool name, decimal renderings) are sequences of  *)
(* one-character strings.  An optional JSON member is a set: {} when the   *)
(* member is absent, {v} when it is present with value v.  A Go slice or   *)
(* map that may be nil is a set in the same way: {} is nil.                *)
(***************************************************************************)
EXTENDS Integers, Sequences, FiniteSets, TLC

\* ------------------------------------------------------------------ bounds

\* Longest cid list a ledger reply carries.
MaxCids == 2

\* ------------------------------------------------------- net/http statuses

StatusOK == 200
StatusBadRequest == 400
StatusUnauthorized == 401
StatusInternalServerError == 500

\* ------------------------------------------------------------ string tools

\* strings.HasPrefix
HasPrefix(s, p) == Len(s) >= Len(p) /\ SubSeq(s, 1, Len(p)) = p

\* strings.TrimPrefix
TrimPrefix(s, p) == IF HasPrefix(s, p) THEN SubSeq(s, Len(p) + 1, Len(s)) ELSE s

Digits == <<"0", "1", "2", "3", "4", "5", "6", "7", "8", "9">>

DigitChars == {Digits[i] : i \in 1..10}

DigitVal(c) == IF c \in DigitChars THEN (CHOOSE i \in 1..10 : Digits[i] = c) - 1 ELSE 0

RECURSIVE ParseDigits(_, _)
ParseDigits(s, acc) ==
  IF s = <<>> THEN acc ELSE ParseDigits(Tail(s), 10 * acc + DigitVal(Head(s)))

\* The digits of an Atoi argument once an optional sign is taken off.
Unsigned(s) == IF s # <<>> /\ Head(s) \in {"+", "-"} THEN Tail(s) ELSE s

\* A parse that reads no further than an optional sign.
AtoiOkLenient(s) == TRUE

\* strconv.Atoi: err == nil
AtoiOk(s) == Unsigned(s) # <<>> /\ \A i \in 1..Len(Unsigned(s)) : Unsigned(s)[i] \in DigitChars

\* strconv.Atoi: the value
AtoiVal(s) ==
  IF s # <<>> /\ Head(s) = "-" THEN 0 - ParseDigits(Unsigned(s), 0)
  ELSE ParseDigits(Unsigned(s), 0)

RECURSIVE NatDigits(_)
NatDigits(n) ==
  IF n < 10 THEN <<Digits[n + 1]>> ELSE NatDigits(n \div 10) \o <<Digits[(n % 10) + 1]>>

\* fmt.Sprintf("%v", n) and "%d" for an int
Itoa(n) == IF n < 0 THEN <<"-">> \o NatDigits(0 - n) ELSE NatDigits(n)

\* ------------------------------------------------------------ shared state

BearerPrefix == <<"B", "e", "a", "r", "e", "r", " ">>

SecretToken ==
  <<"y", "o", "u", "r", "-", "s", "e", "c", "r", "e", "t", "-", "t", "o", "k", "e", "n">>

\* var authTokens
AuthTokensAtStart == {SecretToken}

\* var blockchainEndpoint
EndpointAtStart == "http://127.0.0.1:4000"

\* The action path both handlers post to.
ManifestAction == "fula-manifest-batch_upload"

VARIABLES
  workers,             \* the request workers that may run (one per connection)
  authTokens,          \* var authTokens
  globalConfig,        \* var globalConfig (the PoolName member)
  blockchainEndpoint,  \* var blockchainEndpoint
  h,                   \* per worker: the handler frame of its request
  ledgerLog,           \* per worker: the calls client.Do made to the ledger
  clusterLog,          \* per worker: the calls made to ipfsClusterAPI.Pin
  trace                \* per worker: the components that ran, in order

vars == <<workers, authTokens, globalConfig, blockchainEndpoint, h, ledgerLog, clusterLog, trace>>

shared == <<workers, authTokens, globalConfig, blockchainEndpoint>>

AllWorkers == {"w1", "w2"}

\* More than one worker runs: the inputs are drawn from the narrow sets.
Paired == Cardinality(workers) > 1

\* --------------------------------------------------------------- the data

\* The value of an optional member, or the zero value when it is absent.
ValueOr(opt, zero) == IF opt = {} THEN zero ELSE CHOOSE v \in opt : TRUE

\* type Pin, the zero value
ZeroPin == [CID |-> "", Name |-> "", Origins |-> {}, Meta |-> {}]

\* A JSON object with none of the Pin members.
EmptyPinJSON == [cid |-> {}, name |-> {}, origins |-> {}, meta |-> {}]

\* json.Decoder.Decode into a Pin: an absent member leaves the zero value.
DecodePin(j) ==
  [CID |-> ValueOr(j.cid, ""), Name |-> ValueOr(j.name, ""),
   Origins |-> j.origins, Meta |-> j.meta]

\* encoding/json on a Pin: cid is always written; name, origins and meta
\* carry omitempty and are written only when they are not empty.
EncodePin(p) ==
  [cid |-> {p.CID},
   name |-> IF p.Name = "" THEN {} ELSE {p.Name},
   origins |-> {o \in p.Origins : Len(o) > 0},
   meta |-> {m \in p.Meta : m # {}}]

\* type ManifestJob, ManifestMetadata
Job(work, engine, uri) == [Job |-> [Work |-> work, Engine |-> engine, Uri |-> uri]]

\* type ManifestBatchUploadRequest, the zero value
ZeroManifest == [Cid |-> <<>>, PoolID |-> 0, ReplicationFactor |-> <<>>, ManifestMetadata |-> <<>>]

\* type ManifestBatchUploadResponse, the zero value
ZeroBlockchainResp == [PoolID |-> 0, Storer |-> "", Cid |-> <<>>]

\* A response body of the ledger: bytes that are no JSON, or a JSON object
\* with the members of ManifestBatchUploadResponse.
GarbageBytes == [kind |-> "garbage", pool_id |-> 0, storer |-> "", cid |-> <<>>]

NoBytes == [kind |-> "nil", pool_id |-> 0, storer |-> "", cid |-> <<>>]

LedgerJSON(pool, storer, cids) == [kind |-> "json", pool_id |-> pool, storer |-> storer, cid |-> cids]

\* json.Unmarshal(resp, &blockchainResp): err == nil.  A nil or malformed
\* body is an error.
UnmarshalOk(bytes) == bytes.kind = "json"

\* json.Unmarshal(resp, &blockchainResp): the decoded value
UnmarshalVal(bytes) ==
  IF UnmarshalOk(bytes)
  THEN [PoolID |-> bytes.pool_id, Storer |-> bytes.storer, Cid |-> bytes.cid]
  ELSE ZeroBlockchainResp

\* The strings a cid list may hold.  BadCid is no content identifier.
BadCid == "not-a-cid"

CidStrings == {"bafyA", "bafyB", BadCid}

\* The zero-value identifier, cid.Undef.
Undef == "cid.Undef"

\* cid.Decode with its error dropped (c, _ := cid.Decode(cidStr)): the
\* identifier a well-formed string denotes, the zero value otherwise.
Decode(cidStr) ==
  CASE cidStr = "bafyA" -> "cid:A"
    [] cidStr = "bafyB" -> "cid:B"
    [] OTHER -> Undef

\* type PinStatus, the zero value (as JSON)
ZeroPinStatus ==
  [requestid |-> <<>>, status |-> "", created |-> "", pin |-> EmptyPinJSON,
   delegates |-> <<>>, info |-> {}]

\* What a handler wrote to its http.ResponseWriter; code 0: nothing yet.
NoResponse == [code |-> 0, kind |-> "none", reason |-> "", status |-> ZeroPinStatus, cids |-> <<>>]

\* http.Error(w, msg, code)
HttpError(code, reason) ==
  [code |-> code, kind |-> "error", reason |-> reason, status |-> ZeroPinStatus, cids |-> <<>>]

\* json.NewEncoder(w).Encode(ipfsPinStatus) with no status written before: 200
JsonReply(ps) == [code |-> StatusOK, kind |-> "PinStatus", reason |-> "", status |-> ps, cids |-> <<>>]

\* fmt.Fprintf(w, "CIDs pinned successfully: %v", cids) with no status written before: 200
TextReply(cids) ==
  [code |-> StatusOK, kind |-> "text", reason |-> "", status |-> ZeroPinStatus, cids |-> cids]

\* A request body: bytes that are no JSON, a Pin object, or a
\* ManifestBatchUploadRequest object.
GarbageBody == [kind |-> "garbage", pin |-> EmptyPinJSON, manifest |-> ZeroManifest]

PinBody(j) == [kind |-> "pin", pin |-> j, manifest |-> ZeroManifest]

ManifestBody(m) == [kind |-> "manifest", pin |-> EmptyPinJSON, manifest |-> m]

\* The frame of a handler that has not started: Go's zero values.
IdleFrame ==
  [pc |-> "idle", entry |-> "", header |-> <<>>, body |-> GarbageBody,
   pinRequest |-> ZeroPin, payload |-> ZeroManifest,
   resp |-> NoBytes, statusCode |-> 0, err |-> "nil",
   blockchainResp |-> ZeroBlockchainResp, i |-> 0, response |-> NoResponse]

\* -------------------------------------------------------------- the inputs

\* Authorization header values: none, a credential with no scheme, the
\* scheme with no credential, an unknown credential, the accepted one, the
\* accepted one under a lower-case scheme, the accepted one with a trailing
\* space.
WideHeaders ==
  { <<>>,
    SecretToken,
    BearerPrefix,
    BearerPrefix \o <<"x">>,
    BearerPrefix \o SecretToken,
    <<"b", "e", "a", "r", "e", "r", " ">> \o SecretToken,
    BearerPrefix \o SecretToken \o <<" ">> }

NarrowHeaders == { BearerPrefix \o <<"x">>, BearerPrefix \o SecretToken }

Headers == IF Paired THEN NarrowHeaders ELSE WideHeaders

\* Pin objects a client submits: each member absent, present and empty, or
\* present and not empty.
WidePins ==
  [cid : {{}, {"bafyA"}},
   name : {{}, {""}, {"backup"}},
   origins : {{}, {<<>>}, {<<"/ip4/203.0.113.7/tcp/4001">>}},
   meta : {{}, {{}}, {{<<"app", "photos">>}}}]

NarrowPins ==
  { [cid |-> {"bafyA"}, name |-> {"backup"}, origins |-> {}, meta |-> {}],
    [cid |-> {"bafyB"}, name |-> {}, origins |-> {}, meta |-> {}] }

\* The manifest a client of the batch handler submits for a cid list.
ManifestOf(cids, pool) ==
  [Cid |-> cids, PoolID |-> pool,
   ReplicationFactor |-> [k \in 1..Len(cids) |-> 1],
   ManifestMetadata |-> [k \in 1..Len(cids) |-> Job("storage", "IPFS", cids[k])]]

WideManifests == { ManifestOf(<<"bafyA">>, 7), ManifestOf(<<"bafyA", "bafyB">>, 7) }

NarrowManifests == { ManifestOf(<<"bafyA", "bafyB">>, 7) }

\* Bodies sent to /pins: a Pin object, bytes that are no JSON, or a JSON
\* object of the wrong shape (cid is a list).
PinsBodies ==
  {PinBody(j) : j \in IF Paired THEN NarrowPins ELSE WidePins}
    \cup {GarbageBody} \cup (IF Paired THEN {} ELSE {ManifestBody(ManifestOf(<<"bafyA">>, 7))})

\* Bodies handed to the batch handler.
BatchBodies ==
  {ManifestBody(m) : m \in IF Paired THEN NarrowManifests ELSE WideManifests} \cup {GarbageBody}

\* Cid lists up to a length.
CidLists(n) == UNION {[1..k -> CidStrings] : k \in 0..n}

\* What the ledger can do with a call: fail in transport (client.Do, or
\* io.ReadAll of the body), or reply with a status and a body.
WideOutcomes ==
  {[transport |-> t, status |-> 0, body |-> NoBytes] : t \in {"dial", "read"}}
    \cup [transport : {"ok"}, status : {200, 201, 503},
          body : {GarbageBytes}
                   \cup {LedgerJSON(p, "node-A", c) : p \in {7, 12}, c \in CidLists(MaxCids)}]

NarrowOutcomes ==
  {[transport |-> "dial", status |-> 0, body |-> NoBytes]}
    \cup [transport : {"ok"}, status : {200, 503},
          body : {GarbageBytes, LedgerJSON(7, "node-A", <<"bafyA", BadCid>>),
                  LedgerJSON(12, "node-A", <<"bafyB">>)}]

LedgerOutcomes == IF Paired THEN NarrowOutcomes ELSE WideOutcomes

\* globalConfig.PoolName as the configuration file gives it.
PoolNames == { <<"7">>, <<"-", "3">>, <<>>, <<"7", "x">> }

\* time.Now().Format(time.RFC3339) at the moment a status is built.
Instants == {"2026-01-01T00:00:00Z", "2026-01-01T00:00:01Z"}

\* ------------------------------------------------------------- the program

Init ==
  /\ workers = {"w1"}
  /\ authTokens = AuthTokensAtStart
  /\ globalConfig \in [PoolName : PoolNames]
  /\ blockchainEndpoint = EndpointAtStart
  /\ h = [r \in AllWorkers |-> IdleFrame]
  /\ ledgerLog = [r \in AllWorkers |-> <<>>]
  /\ clusterLog = [r \in AllWorkers |-> <<>>]
  /\ trace = [r \in AllWorkers |-> <<>>]

\* Two workers serve two connections at once.
InitPair ==
  /\ workers = AllWorkers
  /\ authTokens = AuthTokensAtStart
  /\ globalConfig \in [PoolName : {<<"7">>, <<"7", "x">>}]
  /\ blockchainEndpoint = EndpointAtStart
  /\ h = [r \in AllWorkers |-> IdleFrame]
  /\ ledgerLog = [r \in AllWorkers |-> <<>>]
  /\ clusterLog = [r \in AllWorkers |-> <<>>]
  /\ trace = [r \in AllWorkers |-> <<>>]

\* The frame f becomes worker r's, and the components cs are added to its trace.
Step(r, f, cs) ==
  /\ h' = [h EXCEPT ![r] = f]
  /\ trace' = [trace EXCEPT ![r] = @ \o cs]

\* The handler of worker r returns after writing the response resp.
Return(r, f, resp, cs) ==
  Step(r, [f EXCEPT !.pc = "done", !.response = resp], cs \o <<"respond">>)

\* A gate that checks the scheme and never looks the credential up.
GateAdmitsAnyBearer(header, tokens) == HasPrefix(header, BearerPrefix)

\* authenticateMiddleware: the gate lets the header through.
GateAdmits(header, tokens) ==
  /\ ~(header = <<>> \/ ~HasPrefix(header, BearerPrefix))
  /\ TrimPrefix(header, BearerPrefix) \in tokens

\* A gate that records a refused credential in the token map (with the
\* value false), where the lookup then finds it.
AuthenticateMiddlewareRecords(r) ==
  /\ r \in workers
  /\ h[r].pc = "idle"
  /\ \E hd \in Headers, b \in PinsBodies :
       LET f == [h[r] EXCEPT !.entry = "http", !.header = hd, !.body = b] IN
       IF GateAdmits(hd, authTokens)
       THEN /\ Step(r, [f EXCEPT !.pc = "pins"], <<"auth">>)
            /\ UNCHANGED authTokens
       ELSE /\ Return(r, f, HttpError(StatusUnauthorized, "Unauthorized"), <<"auth">>)
            /\ authTokens' = authTokens \cup {TrimPrefix(hd, BearerPrefix)}
  /\ UNCHANGED <<workers, globalConfig, blockchainEndpoint, ledgerLog, clusterLog>>

\* main and authenticateMiddleware: a POST /pins request arrives on worker
\* r's connection and meets the gate, which answers 401 or calls
\* next.ServeHTTP, the /pins handler.
AuthenticateMiddleware(r) ==
  /\ r \in workers
  /\ h[r].pc = "idle"
  /\ \E hd \in Headers, b \in PinsBodies :
       LET f == [h[r] EXCEPT !.entry = "http", !.header = hd, !.body = b] IN
       IF GateAdmits(hd, authTokens)
       THEN Step(r, [f EXCEPT !.pc = "pins"], <<"auth">>)
       ELSE Return(r, f, HttpError(StatusUnauthorized, "Unauthorized"), <<"auth">>)
  /\ UNCHANGED <<shared, ledgerLog, clusterLog>>

\* A translation that takes the replication factor to be the pool id.
TranslateRequestPoolAsFactor(pinRequest, poolID) ==
  [Cid |-> <<pinRequest.CID>>,
   PoolID |-> poolID,
   ReplicationFactor |-> <<poolID>>,
   ManifestMetadata |-> <<Job("storage", "IPFS", pinRequest.CID)>>]

\* handleIPFSPinRequest: internalRequest, the ledger's form of one pin.
TranslateRequest(pinRequest, poolID) ==
  [Cid |-> <<pinRequest.CID>>,
   PoolID |-> poolID,
   ReplicationFactor |-> <<1>>,
   ManifestMetadata |-> <<Job("storage", "IPFS", pinRequest.CID)>>]

\* handleIPFSPinRequest, up to the ledger call: decode the body, parse the
\* configured pool name, build internalRequest.
HandleIPFSPinRequest(r) ==
  /\ h[r].pc = "pins"
  /\ LET f == h[r] IN
     IF f.body.kind # "pin"
     THEN Return(r, f, HttpError(StatusBadRequest, "BAD_REQUEST"), <<"decode">>)
     ELSE LET g == [f EXCEPT !.pinRequest = DecodePin(f.body.pin)] IN
          IF ~AtoiOk(globalConfig.PoolName)
          THEN Return(r, g, HttpError(StatusBadRequest, "BAD_REQUEST"), <<"decode">>)
          ELSE Step(r, [g EXCEPT !.pc = "pins_call",
                                 !.payload = TranslateRequest(g.pinRequest,
                                                              AtoiVal(globalConfig.PoolName))],
                    <<"decode", "translate">>)
  /\ UNCHANGED <<shared, ledgerLog, clusterLog>>

\* callBlockchain: what it returns for what the ledger did.  A reply of any
\* status comes back with a nil error.
CallBlockchain(out) ==
  IF out.transport # "ok"
  THEN [resp |-> NoBytes, statusCode |-> StatusInternalServerError, err |-> out.transport]
  ELSE [resp |-> out.body, statusCode |-> out.status, err |-> "nil"]

\* The request client.Do sends for a payload.
LedgerCall(payload) ==
  [method |-> "POST", url |-> <<blockchainEndpoint, ManifestAction>>, payload |-> payload]

\* handleIPFSPinRequest: the test after the ledger call.
PinsCallFailed(err, statusCode) == err # "nil" \/ statusCode # StatusOK

\* handleIPFSPinRequest: the ledger call and the test of its result.  The
\* failure branch builds its message from err.Error(): with a nil err (a
\* reply whose status is not 200) that call panics, the handler is aborted
\* and nothing is written.
PinsCallBlockchain(r) ==
  /\ h[r].pc = "pins_call"
  /\ \E out \in LedgerOutcomes :
       LET c == CallBlockchain(out)
           f == [h[r] EXCEPT !.resp = c.resp, !.statusCode = c.statusCode, !.err = c.err]
       IN
       /\ ledgerLog' = [ledgerLog EXCEPT ![r] = Append(@, LedgerCall(f.payload))]
       /\ IF PinsCallFailed(c.err, c.statusCode)
          THEN IF c.err # "nil"
               THEN Return(r, f, HttpError(StatusInternalServerError, "INTERNAL_SERVER_ERROR"),
                           <<"ledger">>)
               ELSE Step(r, [f EXCEPT !.pc = "panic"], <<"ledger">>)
          ELSE Step(r, [f EXCEPT !.pc = "pins_reply"], <<"ledger">>)
  /\ UNCHANGED <<shared, clusterLog>>

\* A translation that echoes the cid alone.
TranslateCidOnly(blockResp, pinRequest, now) ==
  [RequestID |-> Itoa(blockResp.PoolID),
   Status |-> "queued",
   Created |-> now,
   Pin |-> [ZeroPin EXCEPT !.CID = pinRequest.CID],
   Delegates |-> << <<"/dns4/pools">> \o Itoa(blockResp.PoolID)
                     \o <<".functionyard.fula.network/tcp/4001/p2p/QmServicePeerId">> >>,
   Info |-> {<<"storer", blockResp.Storer>>}]

\* A translation that makes the request id out of the pool and the cid.
TranslatePerCid(blockResp, pinRequest, now) ==
  [RequestID |-> Itoa(blockResp.PoolID) \o <<"-", pinRequest.CID>>,
   Status |-> "queued",
   Created |-> now,
   Pin |-> pinRequest,
   Delegates |-> << <<"/dns4/pools">> \o Itoa(blockResp.PoolID)
                     \o <<".functionyard.fula.network/tcp/4001/p2p/QmServicePeerId">> >>,
   Info |-> {<<"storer", blockResp.Storer>>}]

\* A translation run on a ledger response that was never filled in.
TranslateZeroResp(blockResp, pinRequest, now) ==
  [RequestID |-> Itoa(ZeroBlockchainResp.PoolID),
   Status |-> "queued",
   Created |-> now,
   Pin |-> pinRequest,
   Delegates |-> << <<"/dns4/pools">> \o Itoa(ZeroBlockchainResp.PoolID)
                     \o <<".functionyard.fula.network/tcp/4001/p2p/QmServicePeerId">> >>,
   Info |-> {<<"storer", ZeroBlockchainResp.Storer>>}]

\* translateToIPFSPinStatus
TranslateToIPFSPinStatus(blockResp, pinRequest, now) ==
  [RequestID |-> Itoa(blockResp.PoolID),
   Status |-> "queued",
   Created |-> now,
   Pin |-> pinRequest,
   Delegates |-> << <<"/dns4/pools">> \o Itoa(blockResp.PoolID)
                     \o <<".functionyard.fula.network/tcp/4001/p2p/QmServicePeerId">> >>,
   Info |-> {<<"storer", blockResp.Storer>>}]

\* encoding/json on a PinStatus
EncodePinStatus(ps) ==
  [requestid |-> ps.RequestID, status |-> ps.Status, created |-> ps.Created,
   pin |-> EncodePin(ps.Pin), delegates |-> ps.Delegates, info |-> ps.Info]

\* handleIPFSPinRequest, after a ledger call it took as successful: decode
\* the ledger's body, build the PinStatus, write it.
PinsReply(r) ==
  /\ h[r].pc = "pins_reply"
  /\ LET f == h[r] IN
     IF ~UnmarshalOk(f.resp)
     THEN Return(r, f, HttpError(StatusInternalServerError, "INTERNAL_SERVER_ERROR"), <<>>)
     ELSE \E now \in Instants :
            LET g == [f EXCEPT !.blockchainResp = UnmarshalVal(f.resp)] IN
            Return(r, g,
                   JsonReply(EncodePinStatus(
                     TranslateToIPFSPinStatus(g.blockchainResp, g.pinRequest, now))),
                   <<"reconcile">>)
  /\ UNCHANGED <<shared, ledgerLog, clusterLog>>

\* handleManifestBatchUpload, up to the ledger call: decode the body.  main
\* registers no route for this handler; it runs when it is called directly,
\* and so behind no gate.
HandleManifestBatchUpload(r) ==
  /\ r \in workers
  /\ h[r].pc = "idle"
  /\ \E b \in BatchBodies :
       LET f == [h[r] EXCEPT !.entry = "direct", !.body = b] IN
       IF b.kind # "manifest"
       THEN Return(r, f, HttpError(StatusBadRequest, "decode"), <<"decode">>)
       ELSE Step(r, [f EXCEPT !.pc = "batch_call", !.payload = b.manifest], <<"decode">>)
  /\ UNCHANGED <<shared, ledgerLog, clusterLog>>

\* handleManifestBatchUpload: the ledger call, the test of its error and the
\* decoding of its body.  Only err is tested, never the status.
BatchCallBlockchain(r) ==
  /\ h[r].pc = "batch_call"
  /\ \E out \in LedgerOutcomes :
       LET c == CallBlockchain(out)
           f == [h[r] EXCEPT !.resp = c.resp, !.statusCode = c.statusCode, !.err = c.err]
       IN
       /\ ledgerLog' = [ledgerLog EXCEPT ![r] = Append(@, LedgerCall(f.payload))]
       /\ IF c.err # "nil"
          THEN Return(r, f, HttpError(c.statusCode, "Blockchain interaction failed"), <<"ledger">>)
          ELSE IF ~UnmarshalOk(c.resp)
          THEN Return(r, f, HttpError(StatusInternalServerError,
                                      "Failed to decode blockchain response"), <<"ledger">>)
          ELSE Step(r, [f EXCEPT !.pc = "batch_pin", !.i = 1,
                                 !.blockchainResp = UnmarshalVal(c.resp)],
                    <<"ledger", "orchestrate">>)
  /\ UNCHANGED <<shared, clusterLog>>

\* A pin loop that ranges over the list the client sent.
PinListOfRequest(blockchainResp, req) == req.Cid

\* handleManifestBatchUpload: the list the pin loop ranges over.
PinList(blockchainResp, req) == blockchainResp.Cid

\* A pin loop that a failed submission ends.
AfterPinAbort(i, n, ok) == IF ok THEN i + 1 ELSE n + 1

\* handleManifestBatchUpload: the position the pin loop takes up after the
\* submission at position i of n; a failed submission is logged and the loop
\* continues.
AfterPin(i, n, ok) == i + 1

\* A pin loop that passes over an entry that does not decode.
BatchPinSkipsUndecodable(r) ==
  /\ h[r].pc = "batch_pin"
  /\ LET f == h[r]
         cids == PinList(f.blockchainResp, f.payload)
     IN
     /\ f.i <= Len(cids)
     /\ \E ok \in BOOLEAN :
          /\ clusterLog' = [clusterLog EXCEPT ![r] =
                              IF Decode(cids[f.i]) = Undef THEN @
                              ELSE Append(@, [cidStr |-> cids[f.i], cid |-> Decode(cids[f.i]),
                                              mode |-> "recursive", ok |-> ok])]
          /\ Step(r, [f EXCEPT !.i = AfterPin(f.i, Len(cids), ok)], <<>>)
  /\ UNCHANGED <<shared, ledgerLog>>

\* handleManifestBatchUpload: one turn of the pin loop.  The cluster accepts
\* the submission or fails it.
BatchPin(r) ==
  /\ h[r].pc = "batch_pin"
  /\ LET f == h[r]
         cids == PinList(f.blockchainResp, f.payload)
     IN
     /\ f.i <= Len(cids)
     /\ \E ok \in BOOLEAN :
          /\ clusterLog' = [clusterLog EXCEPT ![r] =
                              Append(@, [cidStr |-> cids[f.i], cid |-> Decode(cids[f.i]),
                                         mode |-> "recursive", ok |-> ok])]
          /\ Step(r, [f EXCEPT !.i = AfterPin(f.i, Len(cids), ok)], <<>>)
  /\ UNCHANGED <<shared, ledgerLog>>

\* A closing line that reports a failed submission to the client.
BatchTextStrict(blockchainResp, log) ==
  IF \E k \in 1..Len(log) : ~log[k].ok
  THEN HttpError(StatusInternalServerError, "pin failed")
  ELSE TextReply(blockchainResp.Cid)

\* handleManifestBatchUpload: the closing Fprintf, which reads the ledger's
\* list and nothing of what the pin calls returned.
BatchText(blockchainResp, log) == TextReply(blockchainResp.Cid)

\* handleManifestBatchUpload: the loop is over, the handler writes its text.
BatchReply(r) ==
  /\ h[r].pc = "batch_pin"
  /\ LET f == h[r] IN
     /\ f.i > Len(PinList(f.blockchainResp, f.payload))
     /\ Return(r, f, BatchText(f.blockchainResp, clusterLog[r]), <<>>)
  /\ UNCHANGED <<shared, ledgerLog, clusterLog>>

\* main: http.ListenAndServe keeps serving.  A worker whose handler returned,
\* or was aborted by a panic (which net/http recovers), takes up the next
\* request with fresh locals.
Recycle(r) ==
  /\ h[r].pc \in {"done", "panic"}
  /\ h' = [h EXCEPT ![r] = IdleFrame]
  /\ ledgerLog' = [ledgerLog EXCEPT ![r] = <<>>]
  /\ clusterLog' = [clusterLog EXCEPT ![r] = <<>>]
  /\ trace' = [trace EXCEPT ![r] = <<>>]
  /\ UNCHANGED shared

Next ==
  \E r \in AllWorkers :
    \/ AuthenticateMiddleware(r)
    \/ HandleIPFSPinRequest(r)
    \/ PinsCallBlockchain(r)
    \/ PinsReply(r)
    \/ HandleManifestBatchUpload(r)
    \/ BatchCallBlockchain(r)
    \/ BatchPin(r)
    \/ BatchReply(r)
    \/ Recycle(r)

\* One request worker.
Spec == Init /\ [][Next]_vars

\* Two request workers running at once.
SpecPair == InitPair /\ [][Next]_vars

\* ------------------------------------------------------------ the claims

\* A request that came in over HTTP (through main's router and the gate).
OverHTTP(r) == h[r].entry = "http"

\* A direct run of the batch handler.
Direct(r) == h[r].entry = "direct"

\* The ledger call of worker r has returned.
LedgerReturned(r) == ledgerLog[r] # <<>>

\* A status of the 2xx range.
Is2xx(code) == code \in 200..299

\* The ledger call of worker r completed an exchange (no transport error)
\* with a status outside 2xx.
LedgerNon2xx(r) == LedgerReturned(r) /\ h[r].err = "nil" /\ ~Is2xx(h[r].statusCode)

\* s is a subsequence of t.
RECURSIVE IsSubsequence(_, _)
IsSubsequence(s, t) ==
  IF s = <<>> THEN TRUE
  ELSE IF t = <<>> THEN FALSE
  ELSE IF Head(s) = Head(t) THEN IsSubsequence(Tail(s), Tail(t))
  ELSE IsSubsequence(s, Tail(t))

\* The header carries no valid bearer credential, in the words of the
\* contract: empty, no "Bearer " prefix, or a credential outside the
\* authorized set.
LacksCredential(hd) ==
  \/ Len(hd) = 0
  \/ \E k \in 1..Len(BearerPrefix) : k > Len(hd) \/ hd[k] # BearerPrefix[k]
  \/ [k \in 1..(Len(hd) - Len(BearerPrefix)) |-> hd[k + Len(BearerPrefix)]] \notin AuthTokensAtStart

\* C1: a request over HTTP whose Authorization header is empty, lacks the
\* "Bearer " prefix or carries a credential outside the authorized set is
\* answered 401, and nothing behind the gate runs for it: no decoding or
\* translation, no ledger call, no cluster pin call.
C1_UnauthorizedStopsAtGate ==
  \A r \in AllWorkers :
    (OverHTTP(r) /\ LacksCredential(h[r].header)) =>
      /\ h[r].pc = "done"
      /\ h[r].response = HttpError(StatusUnauthorized, "Unauthorized")
      /\ trace[r] = <<"auth", "respond">>
      /\ h[r].pinRequest = ZeroPin /\ h[r].payload = ZeroManifest
      /\ ledgerLog[r] = <<>>
      /\ clusterLog[r] = <<>>

\* C1, its case: a request with an unknown credential was answered.
C1_Witness ==
  \E r \in AllWorkers :
    /\ OverHTTP(r) /\ h[r].header = BearerPrefix \o <<"x">>
    /\ h[r].pc = "done" /\ h[r].response.code = StatusUnauthorized

\* C2: when the ledger call of a request completes with a status outside
\* 2xx, no cluster pin call is made for the request, in either handler.
C2_NoPinAfterNon2xx ==
  \A r \in AllWorkers : LedgerNon2xx(r) => clusterLog[r] = <<>>

\* C3: an authenticated /pins request with a decodable body and an integer
\* pool id, whose ledger call completes with a status outside 2xx and no
\* transport error, is answered 500.
C3_Non2xxAnswered500 ==
  \A r \in AllWorkers :
    (OverHTTP(r) /\ LedgerNon2xx(r)) => h[r].response.code = StatusInternalServerError

\* C4: a /pins request answered 200 went through the gate, the translator,
\* the ledger call, the cluster pin orchestrator, the reconciler and the
\* response, in this order.
C4_PinsRunsOrchestrator ==
  \A r \in AllWorkers :
    (OverHTTP(r) /\ h[r].pc = "done" /\ h[r].response.code = StatusOK) =>
      IsSubsequence(<<"auth", "translate", "ledger", "orchestrate", "reconcile", "respond">>,
                    trace[r])

\* C5: after a ledger reply listing N identifiers the pin loop makes exactly
\* N submissions, the k-th for the k-th listed identifier, whether or not
\* earlier submissions failed: during the loop the submissions made are the
\* list's prefix before the loop position, and once the handler has
\* answered they are the whole list.
C5_OnePinPerListedCid ==
  \A r \in AllWorkers :
    (Direct(r) /\ LedgerReturned(r) /\ h[r].err = "nil" /\ UnmarshalOk(h[r].resp)) =>
      LET listed == h[r].resp.cid
          n == IF h[r].pc = "done" THEN Len(listed) ELSE h[r].i - 1
      IN /\ h[r].pc \in {"batch_pin", "done"}
         /\ n \in 0..Len(listed)
         /\ Len(clusterLog[r]) = n
         /\ \A k \in 1..n :
              /\ clusterLog[r][k].cidStr = listed[k]
              /\ clusterLog[r][k].mode = "recursive"

\* C5, its case: two identifiers listed, the first submission failed, the
\* second was made all the same.
C5_Witness ==
  \E r \in AllWorkers :
    /\ Direct(r) /\ h[r].pc = "done" /\ Len(h[r].resp.cid) = 2
    /\ Len(clusterLog[r]) = 2 /\ ~clusterLog[r][1].ok

\* The handler of worker r answered 200 with a PinStatus.
GotPinStatus(r) ==
  h[r].pc = "done" /\ h[r].response.code = StatusOK /\ h[r].response.kind = "PinStatus"

\* C6 as stated: the pin object of a returned PinStatus is the submitted pin
\* object, with nothing added, dropped or changed.
C6_EchoIsSubmitted ==
  \A r \in AllWorkers :
    (OverHTTP(r) /\ GotPinStatus(r)) => h[r].response.status.pin = h[r].body.pin

\* C6 amended: the pin object of a returned PinStatus carries the submitted
\* cid (the empty string when none was submitted) and the submitted name,
\* origins and meta when they are not empty; a name, origins or meta
\* submitted empty is left out, like one not submitted.
C6_EchoKeepsNonEmpty ==
  \A r \in AllWorkers :
    (OverHTTP(r) /\ GotPinStatus(r)) =>
      LET sent == h[r].body.pin
          echo == h[r].response.status.pin
      IN /\ echo.cid = (IF sent.cid = {} THEN {""} ELSE sent.cid)
         /\ echo.name = sent.name \ {""}
         /\ echo.origins = sent.origins \ {<<>>}
         /\ echo.meta = sent.meta \ {{}}

\* C6, its case: a pin submitted with an empty name and a meta entry came
\* back without the name and with the meta.
C6_Witness ==
  \E r \in AllWorkers :
    /\ OverHTTP(r) /\ GotPinStatus(r)
    /\ h[r].body.pin.name = {""} /\ h[r].body.pin.meta = {{<<"app", "photos">>}}
    /\ h[r].response.status.pin.name = {}
    /\ h[r].response.status.pin.meta = {{<<"app", "photos">>}}

\* s is an optional sign followed by one or more decimal digits.
DecimalInteger(s) ==
  LET from == IF Len(s) > 0 /\ s[1] \in {"+", "-"} THEN 2 ELSE 1 IN
  /\ Len(s) >= from
  /\ \A k \in from..Len(s) : s[k] \in {"0", "1", "2", "3", "4", "5", "6", "7", "8", "9"}

\* C7: an authenticated /pins request whose body does not decode, or that
\* meets a configured pool name that is no integer, is answered 400 and
\* makes neither a ledger call nor a cluster pin call.
C7_BadRequestBeforeLedger ==
  \A r \in AllWorkers :
    (/\ OverHTTP(r) /\ ~LacksCredential(h[r].header)
     /\ (h[r].body.kind # "pin" \/ ~DecimalInteger(globalConfig.PoolName))) =>
      /\ ledgerLog[r] = <<>>
      /\ clusterLog[r] = <<>>
      /\ \/ h[r].pc = "pins"
         \/ /\ h[r].pc = "done"
            /\ h[r].response = HttpError(StatusBadRequest, "BAD_REQUEST")

\* C7, its case: a decodable body met the pool name "7x" and was answered 400.
C7_Witness ==
  \E r \in AllWorkers :
    /\ OverHTTP(r) /\ h[r].body.kind = "pin" /\ globalConfig.PoolName = <<"7", "x">>
    /\ h[r].pc = "done" /\ h[r].response.code = StatusBadRequest

\* The handler of worker r is over: it returned, or it was aborted.
Finished(r) == h[r].pc \in {"done", "panic"}

\* The ledger accepted the request of worker r.
LedgerAccepted(r) == LedgerReturned(r) /\ h[r].err = "nil" /\ Is2xx(h[r].statusCode)

\* Workers a and b ran the same request and got the same ledger reply.
SameRun(a, b) ==
  /\ h[a].entry = h[b].entry /\ h[a].header = h[b].header /\ h[a].body = h[b].body
  /\ h[a].resp = h[b].resp /\ h[a].statusCode = h[b].statusCode /\ h[a].err = h[b].err

\* A response with its creation timestamp blanked.
SansCreated(resp) == [resp EXCEPT !.status.created = ""]

\* C8: two runs of the same request with the same accepting ledger reply
\* end with the same status code and the same body apart from the creation
\* timestamp, whatever the cluster pin calls of each returned; a PinStatus
\* among them says "queued".
C8_ResponseIgnoresPinOutcomes ==
  \A a, b \in AllWorkers :
    (Finished(a) /\ Finished(b) /\ SameRun(a, b) /\ LedgerAccepted(a)) =>
      /\ SansCreated(h[a].response) = SansCreated(h[b].response)
      /\ h[a].response.kind = "PinStatus" => h[a].response.status.status = "queued"

\* C8, its case: two such runs, answered 200, in one of which a cluster pin
\* call failed and in the other none did.
C8_Witness ==
  \E a, b \in AllWorkers :
    /\ a # b /\ Finished(a) /\ Finished(b) /\ SameRun(a, b) /\ LedgerAccepted(a)
    /\ h[a].response.code = StatusOK /\ h[b].response.code = StatusOK
    /\ \E k \in 1..Len(clusterLog[a]) : ~clusterLog[a][k].ok
    /\ clusterLog[b] # <<>> /\ \A k \in 1..Len(clusterLog[b]) : clusterLog[b][k].ok

\* The identifiers a cid list names: what its well-formed entries denote.
Named(cids) == {Decode(cids[k]) : k \in 1..Len(cids)} \ {Undef}

\* C9 as stated: every identifier submitted to the cluster is named in the
\* cid list of the ledger response of the same request, and an identifier
\* the client submitted that the list does not name is never submitted.
C9_PinsOnlyListed ==
  \A r \in AllWorkers :
    \A k \in 1..Len(clusterLog[r]) :
      /\ clusterLog[r][k].cid \in Named(h[r].resp.cid)
      /\ clusterLog[r][k].cid \notin Named(h[r].payload.Cid) \ Named(h[r].resp.cid)

\* C9 amended: every cluster pin submission is made for an entry of the cid
\* list of the ledger response of the same request, the k-th submission for
\* the k-th entry: it submits the identifier the entry denotes, or the
\* zero-value identifier when the entry is malformed; an identifier the
\* client submitted that the list does not name is never submitted.
C9_PinsFromLedgerList ==
  \A r \in AllWorkers :
    \A k \in 1..Len(clusterLog[r]) :
      LET listed == h[r].resp.cid
          sub == clusterLog[r][k]
      IN /\ k <= Len(listed)
         /\ sub.cidStr = listed[k]
         /\ IF sub.cidStr = BadCid THEN sub.cid = Undef ELSE sub.cid \in Named(listed)
         /\ sub.cid \notin Named(h[r].payload.Cid) \ Named(listed)

\* C9, its case: the client sent bafyA and bafyB, the ledger listed a
\* malformed entry and bafyA; the zero value and bafyA were submitted,
\* bafyB was not.
C9_Witness ==
  \E r \in AllWorkers :
    /\ Direct(r) /\ h[r].pc = "done"
    /\ h[r].payload.Cid = <<"bafyA", "bafyB">>
    /\ h[r].resp.cid = <<BadCid, "bafyA">>
    /\ Len(clusterLog[r]) = 2
    /\ clusterLog[r][1].cid = Undef /\ clusterLog[r][2].cid = "cid:A"

\* The ledger call of worker r failed: a transport error, or a status
\* outside 2xx.
LedgerFailed(r) == LedgerReturned(r) /\ (h[r].err # "nil" \/ ~Is2xx(h[r].statusCode))

\* C10: a request makes at most one ledger call, and a request whose ledger
\* call failed never ends with a 200 response.
C10_OneCallFailureIsFinal ==
  \A r \in AllWorkers :
    /\ Len(ledgerLog[r]) <= 1
    /\ LedgerFailed(r) => h[r].response.code # StatusOK

\* The decimal digits of s read as a number; -1 when s is no run of digits
\* without a leading zero.
DecimalValue(s) ==
  IF /\ Len(s) >= 1
     /\ \A k \in 1..Len(s) : s[k] \in {"0", "1", "2", "3", "4", "5", "6", "7", "8", "9"}
     /\ (Len(s) > 1 => s[1] # "0")
  THEN ParseDigits(s, 0) ELSE 0 - 1

\* C11: in every PinStatus returned with 200, requestid is the decimal
\* rendering of the pool_id of the ledger's response, delegates has exactly
\* one entry and it embeds that rendering, and info maps "storer" to the
\* storer of the ledger's response.
C11_StatusFromLedgerResponse ==
  \A r \in AllWorkers :
    GotPinStatus(r) =>
      LET ps == h[r].response.status
          reply == h[r].resp
      IN /\ DecimalValue(ps.requestid) = reply.pool_id
         /\ Len(ps.delegates) = 1
         /\ ps.delegates[1] = <<"/dns4/pools">> \o ps.requestid
                                \o <<".functionyard.fula.network/tcp/4001/p2p/QmServicePeerId">>
         /\ ps.info = {<<"storer", reply.storer>>}

\* C11, its case: the configured pool is 7, the ledger answered under pool
\* 12, and the PinStatus carries 12.
C11_Witness ==
  \E r \in AllWorkers :
    /\ GotPinStatus(r) /\ globalConfig.PoolName = <<"7">> /\ h[r].resp.pool_id = 12
    /\ h[r].response.status.requestid = <<"1", "2">>
    /\ h[r].response.status.info = {<<"storer", "node-A">>}

\* C12: every request the /pins handler submits to the ledger has cid,
\* replication_factor and manifest_metadata of length 1: the submitted cid,
\* the factor 1, and one job with work "storage", engine "IPFS" and the
\* submitted cid as uri; its pool_id is the integer the configured pool name
\* spells.
C12_OneAlignedEntry ==
  \A r \in AllWorkers :
    OverHTTP(r) =>
      \A k \in 1..Len(ledgerLog[r]) :
        LET sent == ledgerLog[r][k].payload
            c == IF h[r].body.pin.cid = {} THEN "" ELSE CHOOSE x \in h[r].body.pin.cid : TRUE
        IN /\ sent.Cid = <<c>>
           /\ sent.ReplicationFactor = <<1>>
           /\ Len(sent.ManifestMetadata) = 1
           /\ sent.ManifestMetadata[1].Job = [Work |-> "storage", Engine |-> "IPFS", Uri |-> c]
           /\ Itoa(sent.PoolID) = globalConfig.PoolName

\* C12, its case: under pool name "-3" the pin of bafyA went to the ledger.
C12_Witness ==
  \E r \in AllWorkers :
    /\ OverHTTP(r) /\ Len(ledgerLog[r]) = 1 /\ globalConfig.PoolName = <<"-", "3">>
    /\ ledgerLog[r][1].payload.PoolID = 0 - 3
    /\ ledgerLog[r][1].payload.Cid = <<"bafyA">>

\* C13: callBlockchain reports an error in each of its failure modes
\* (transport failure, a completed exchange with a status outside 2xx) and
\* reports a nil error only when the ledger replied with a 2xx status.
C13_NilErrorOnly2xx ==
  \A r \in AllWorkers :
    LedgerReturned(r) => (h[r].err = "nil" <=> Is2xx(h[r].statusCode))

\* C14: when the ledger call succeeds (a 2xx reply, no transport error) and
\* the body does not decode as a ManifestBatchUploadResponse, the request
\* ends with 500, no cluster pin call is made and no PinStatus is returned.
C14_UndecodableReplyIs500 ==
  \A r \in AllWorkers :
    (LedgerAccepted(r) /\ ~UnmarshalOk(h[r].resp)) =>
      /\ clusterLog[r] = <<>>
      /\ h[r].response.kind # "PinStatus"
      /\ \/ h[r].pc = "pins_reply"
         \/ h[r].pc = "done" /\ h[r].response.code = StatusInternalServerError

\* C15: when a listed identifier does not decode, the pin loop neither skips
\* it nor stops: it makes one recursive submission at that position with the
\* zero-value identifier, and once the handler has answered every later
\* position has its submission too.
C15_UndecodableStillSubmitted ==
  \A r \in AllWorkers :
    (Direct(r) /\ h[r].pc \in {"batch_pin", "done"}) =>
      LET listed == h[r].blockchainResp.Cid
          passed == IF h[r].pc = "done" THEN Len(listed) ELSE h[r].i - 1
      IN \A k \in 1..passed :
           Decode(listed[k]) = Undef =>
             /\ Len(clusterLog[r]) >= k
             /\ clusterLog[r][k].cidStr = listed[k]
             /\ clusterLog[r][k].cid = Undef
             /\ clusterLog[r][k].mode = "recursive"
             /\ h[r].pc = "done" => Len(clusterLog[r]) = Len(listed)

\* C15, its case: the first of two listed identifiers did not decode, its
\* submission failed, and the second was submitted after it.
C15_Witness ==
  \E r \in AllWorkers :
    /\ Direct(r) /\ h[r].pc = "done"
    /\ h[r].blockchainResp.Cid = <<BadCid, "bafyB">>
    /\ Len(clusterLog[r]) = 2
    /\ clusterLog[r][1].cid = Undef /\ ~clusterLog[r][1].ok
    /\ clusterLog[r][2].cid = "cid:B"

\* C16: two /pins requests served at the same time for different content
\* identifiers, whose ledger responses carry the same pool_id, get the same
\* requestid, however their steps interleave.
C16_SamePoolSameRequestID ==
  \A a, b \in AllWorkers :
    (/\ a # b /\ OverHTTP(a) /\ OverHTTP(b) /\ GotPinStatus(a) /\ GotPinStatus(b)
     /\ h[a].body.pin.cid # h[b].body.pin.cid
     /\ h[a].resp.pool_id = h[b].resp.pool_id) =>
      h[a].response.status.requestid = h[b].response.status.requestid

\* C16, its case: bafyA and bafyB, both accepted under pool 7, both answered
\* with requestid "7".
C16_Witness ==
  \E a, b \in AllWorkers :
    /\ a # b /\ GotPinStatus(a) /\ GotPinStatus(b)
    /\ h[a].body.pin.cid = {"bafyA"} /\ h[b].body.pin.cid = {"bafyB"}
    /\ h[a].resp.pool_id = 7 /\ h[b].resp.pool_id = 7
    /\ h[a].response.status.requestid = <<"7">> /\ h[b].response.status.requestid = <<"7">>

\* C17: no step of request handling changes the shared state: the token
\* set, the configuration and the ledger endpoint stay what they were at
\* startup, and the gate's decision for a header stays the same.
C17_SharedStateFrozen ==
  [][/\ authTokens' = authTokens /\ authTokens = AuthTokensAtStart
     /\ globalConfig' = globalConfig
     /\ blockchainEndpoint' = blockchainEndpoint /\ blockchainEndpoint = EndpointAtStart
     /\ \A hd \in WideHeaders : GateAdmits(hd, authTokens') = GateAdmits(hd, authTokens)]_vars

\* C17, its case: one worker has refused a request at the gate while the
\* other is in the middle of its own, and the token set is as at startup.
C17_Witness ==
  \E a, b \in AllWorkers :
    /\ a # b
    /\ h[a].pc = "done" /\ h[a].response.code = StatusUnauthorized
    /\ h[b].pc \in {"pins_call", "pins_reply", "batch_pin"}
    /\ authTokens = AuthTokensAtStart

\* How many times c occurs in the sequence t.
RECURSIVE Occurrences(_, _)
Occurrences(c, t) ==
  IF t = <<>> THEN 0 ELSE (IF Head(t) = c THEN 1 ELSE 0) + Occurrences(c, Tail(t))

\* C18: no path of a POST /pins request through the gate and the handler
\* aborts the handler or ends without a response: a request that is over
\* has exactly one response, with status 401, 400, 500 or 200.
C18_EveryPinsRequestAnswered ==
  \A r \in AllWorkers :
    OverHTTP(r) =>
      /\ h[r].pc # "panic"
      /\ h[r].pc = "done" =>
           /\ h[r].response.code \in
                {StatusUnauthorized, StatusBadRequest, StatusInternalServerError, StatusOK}
           /\ Occurrences("respond", trace[r]) = 1

\* C19: the /pins handler takes the ledger call as successful exactly when
\* the exchange completed with a 2xx status: a reply with a decodable body
\* ends in a 200 carrying a PinStatus if and only if its status is 2xx.
C19_Any2xxIsSuccess ==
  \A r \in AllWorkers :
    (OverHTTP(r) /\ Finished(r) /\ LedgerReturned(r) /\ UnmarshalOk(h[r].resp)) =>
      (GotPinStatus(r) <=> LedgerAccepted(r))

====
